---- MODULE Spec2Model ----
(***************************************************************************)
(* Model of django_universal_paginator/utils.py: the tagged value codec    *)
(* (serialize_value / deserialize_values) and the keyset boundary filter   *)
(* (filter_by_order_key).                                                  *)
(*                                                                         *)
(* Python values are records [t, b, s]:                                    *)
(*   None   [t |-> "none"]                                                 *)
(*   bool   [t |-> "bool",  b |-> the truth value]                         *)
(*   str    [t |-> "str",   s |-> sequence of code points]                 *)
(*   bytes  [t |-> "bytes", s |-> sequence of bytes]                       *)
(*   int    [t |-> "int",   b |-> negative, s |-> magnitude]               *)
(*   other  [t |-> "other", s |-> code points of str(value)]  (e.g. float) *)
(* Python integers are unbounded; a magnitude is a big-endian sequence of  *)
(* NDigits base-256 digits, and the arithmetic below is exact on them.     *)
(***************************************************************************)
EXTENDS Integers, Sequences, FiniteSets, TLC

VARIABLES
    values_in,   \* the tuple handed to serialize_values
    data,        \* deserialize_values: the buffer still to decode
    values,      \* deserialize_values: the list decoded so far
    pc,          \* position of the codec run
    err,         \* the exception that ended the codec run ("" when none)
    order_by,    \* get_order_by(qs): the ordering of the queryset
    start_position, \* the cursor tuple handed to filter_by_order_key
    rows,        \* the rows the queryset selects
    out          \* per direction, the outcome of filter_by_order_key

codec_vars == <<values_in, data, values, pc, err>>
filter_vars == <<order_by, start_position, rows, out>>
vars == <<values_in, data, values, pc, err, order_by, start_position, rows, out>>

----------------------------------------------------------------------------
(* Bounds of the model *)

\* digits of a magnitude: 9 bytes hold 2^64 + 2^32 + 65792 + 1
NDigits == 9
\* longest tuple drawn for serialize_values
MaxTupleLen == 2
\* long strings are drawn with 256 .. 256 + LongExtra characters
LongExtra == 1
\* most columns of an ordering, and most values of a cursor
MaxCols == 2

----------------------------------------------------------------------------
(* Python values *)

PyNone == [t |-> "none", b |-> FALSE, s |-> <<>>]
PyBool(x) == [t |-> "bool", b |-> x, s |-> <<>>]
PyStr(cps) == [t |-> "str", b |-> FALSE, s |-> cps]
PyBytes(bs) == [t |-> "bytes", b |-> FALSE, s |-> bs]
PyOther(repr) == [t |-> "other", b |-> FALSE, s |-> repr]

----------------------------------------------------------------------------
(* Exact integer arithmetic on magnitudes *)

\* the function as a sequence value, every element computed once
AsSeq(f, n) == SubSeq(f, 1, n)

Zeros(n) == AsSeq([i \in 1..n |-> 0], n)

\* a digit string (big-endian, at most NDigits long) as a magnitude
Pad(ds) == Zeros(NDigits - Len(ds)) \o ds

MagZero == Zeros(NDigits)

MagIsZero(a) == \A i \in 1..NDigits : a[i] = 0

MagLt(a, b) ==
    \E i \in 1..NDigits : a[i] < b[i] /\ \A j \in 1..(i - 1) : a[j] = b[j]

MagAdd(a, b) ==
    LET c[i \in 1..(NDigits + 1)] ==
            IF i = NDigits + 1 THEN 0 ELSE (a[i] + b[i] + c[i + 1]) \div 256
    IN  AsSeq([i \in 1..NDigits |-> (a[i] + b[i] + c[i + 1]) % 256], NDigits)

\* a - b for b <= a
MagSub(a, b) ==
    LET w[i \in 1..(NDigits + 1)] ==
            IF i = NDigits + 1 THEN 0
            ELSE IF a[i] - b[i] - w[i + 1] < 0 THEN 1 ELSE 0
    IN  AsSeq([i \in 1..NDigits |-> (a[i] - b[i] - w[i + 1]) % 256], NDigits)

MagOne == Pad(<<1>>)

\* 256 ** n
Pow256(n) == Pad(<<1>> \o Zeros(n))

PyInt(neg, mag) == [t |-> "int", b |-> (neg /\ ~MagIsZero(mag)), s |-> mag]

IntNeg(x) == PyInt(~x.b, x.s)

IntAdd(x, y) ==
    IF x.b = y.b THEN PyInt(x.b, MagAdd(x.s, y.s))
    ELSE IF MagLt(x.s, y.s) THEN PyInt(y.b, MagSub(y.s, x.s))
    ELSE PyInt(x.b, MagSub(x.s, y.s))

IntSub(x, y) == IntAdd(x, IntNeg(y))

IntLt(x, y) ==
    IF x.b /\ ~y.b THEN TRUE
    ELSE IF ~x.b /\ y.b THEN FALSE
    ELSE IF x.b THEN MagLt(y.s, x.s)
    ELSE MagLt(x.s, y.s)

IntGe(x, y) == ~IntLt(x, y)

IntZero == PyInt(FALSE, MagZero)
IntOne == PyInt(FALSE, MagOne)

\* a small natural as a Python int
IntOfNat(n) ==
    PyInt(FALSE, AsSeq([i \in 1..NDigits |->
        IF NDigits - i > 3 THEN 0
        ELSE (n \div (256 ^ (NDigits - i))) % 256], NDigits))

\* the magnitude divided by ten, and the remainder
MagDivMod10(a) ==
    LET r[i \in 0..NDigits] ==
            IF i = 0 THEN 0 ELSE (r[i - 1] * 256 + a[i]) % 10
    IN  [quot |-> AsSeq([i \in 1..NDigits |-> (r[i - 1] * 256 + a[i]) \div 10],
                        NDigits),
         rem |-> r[NDigits]]

RECURSIVE MagDecimal(_)
MagDecimal(a) ==
    IF MagIsZero(a) THEN <<>>
    ELSE LET dm == MagDivMod10(a) IN MagDecimal(dm.quot) \o <<48 + dm.rem>>

----------------------------------------------------------------------------
(* str.encode('utf-8') and bytes.decode('utf-8') *)

\* the UTF-8 bytes of one code point (no surrogates are drawn)
EncodeCodePoint(cp) ==
    IF cp < 128 THEN <<cp>>
    ELSE IF cp < 2048 THEN <<192 + (cp \div 64), 128 + (cp % 64)>>
    ELSE IF cp < 65536 THEN
        <<224 + (cp \div 4096), 128 + ((cp \div 64) % 64), 128 + (cp % 64)>>
    ELSE <<240 + (cp \div 262144), 128 + ((cp \div 4096) % 64),
           128 + ((cp \div 64) % 64), 128 + (cp % 64)>>

\* the concatenation of the code points' encodings (halving keeps the
\* evaluation shallow for long strings)
RECURSIVE Utf8Encode(_)
Utf8Encode(cps) ==
    IF cps = <<>> THEN <<>>
    ELSE IF Len(cps) = 1 THEN EncodeCodePoint(cps[1])
    ELSE LET h == Len(cps) \div 2 IN
         Utf8Encode(SubSeq(cps, 1, h)) \o Utf8Encode(SubSeq(cps, h + 1, Len(cps)))

IsCont(b) == b >= 128 /\ b <= 191

\* number of bytes of the sequence that starts with lead byte b (0: invalid)
LeadLen(b) ==
    IF b < 128 THEN 1
    ELSE IF b >= 194 /\ b <= 223 THEN 2
    ELSE IF b >= 224 /\ b <= 239 THEN 3
    ELSE IF b >= 240 /\ b <= 244 THEN 4
    ELSE 0

\* the second byte's range depends on the lead (overlong forms, surrogates)
SecondOk(lead, b) ==
    IF lead = 224 THEN b >= 160 /\ b <= 191
    ELSE IF lead = 237 THEN b >= 128 /\ b <= 159
    ELSE IF lead = 240 THEN b >= 144 /\ b <= 191
    ELSE IF lead = 244 THEN b >= 128 /\ b <= 143
    ELSE IsCont(b)

DecodeCodePoint(bs, i, n) ==
    IF n = 1 THEN bs[i]
    ELSE IF n = 2 THEN (bs[i] - 192) * 64 + (bs[i + 1] - 128)
    ELSE IF n = 3 THEN
        (bs[i] - 224) * 4096 + (bs[i + 1] - 128) * 64 + (bs[i + 2] - 128)
    ELSE (bs[i] - 240) * 262144 + (bs[i + 1] - 128) * 4096
         + (bs[i + 2] - 128) * 64 + (bs[i + 3] - 128)

RECURSIVE Utf8DecodeFrom(_, _, _)
Utf8DecodeFrom(bs, i, acc) ==
    IF i > Len(bs) THEN [err |-> "", s |-> acc]
    ELSE LET n == LeadLen(bs[i]) IN
        IF \/ n = 0
           \/ i + n - 1 > Len(bs)
           \/ (n >= 2 /\ ~SecondOk(bs[i], bs[i + 1]))
           \/ \E k \in 2..(n - 1) : ~IsCont(bs[i + k])
        THEN [err |-> "UnicodeDecodeError", s |-> <<>>]
        ELSE Utf8DecodeFrom(bs, i + n, Append(acc, DecodeCodePoint(bs, i, n)))

\* A long byte string is cut at a character boundary near its middle (a byte
\* that is no continuation byte) and the halves are decoded on their own;
\* four continuation bytes in a row are ill-formed.
RECURSIVE Utf8Decode(_)
Utf8Decode(bs) ==
    IF Len(bs) <= 8 THEN Utf8DecodeFrom(bs, 1, <<>>)
    ELSE LET mid == Len(bs) \div 2
             cuts == { p \in mid..(mid + 3) : ~IsCont(bs[p]) }
         IN  IF cuts = {} THEN [err |-> "UnicodeDecodeError", s |-> <<>>]
             ELSE LET p == CHOOSE x \in cuts : \A y \in cuts : x <= y
                      l == Utf8Decode(SubSeq(bs, 1, p - 1))
                      r == Utf8Decode(SubSeq(bs, p, Len(bs)))
                  IN  IF l.err # "" THEN l
                      ELSE IF r.err # "" THEN r
                      ELSE [err |-> "", s |-> l.s \o r.s]

\* v[n:] of a bytes object
DropBytes(bs, n) == SubSeq(bs, n + 1, Len(bs))
\* v[:n] of a bytes object
TakeBytes(bs, n) == SubSeq(bs, 1, IF n < Len(bs) THEN n ELSE Len(bs))

----------------------------------------------------------------------------
(* struct.pack / struct.unpack for the formats 'B', '!H', '!I', '!Q',      *)
(* named by their size in bytes                                            *)

StructPack(size, x) ==
    IF x.b \/ ~MagLt(x.s, Pow256(size))
    THEN [err |-> "struct.error", out |-> <<>>]
    ELSE [err |-> "", out |-> SubSeq(x.s, NDigits - size + 1, NDigits)]

StructUnpack(size, bs) ==
    IF Len(bs) # size THEN [err |-> "struct.error", val |-> IntZero]
    ELSE [err |-> "", val |-> PyInt(FALSE, Pad(bs))]

\* an unsigned big-endian field of at most two bytes as a natural number
NatOfBytes(bs) == IF Len(bs) = 1 THEN bs[1] ELSE (bs[1] * 256) + bs[2]

----------------------------------------------------------------------------
(* The string and bytes serializers *)

is_short_string(v) == v.t = "str" /\ Len(v.s) < 256

serialize_short_string(v) ==
    LET p == StructPack(1, IntOfNat(Len(v.s))) IN
    [err |-> p.err, out |-> p.out \o Utf8Encode(v.s)]

deserialize_short_string(v) ==
    IF v = <<>> THEN [err |-> "IndexError", consumed |-> 0, value |-> PyNone]
    ELSE LET length == v[1]
             text == Utf8Decode(DropBytes(v, 1))
         IN  [err |-> text.err, consumed |-> length + 1, value |-> PyStr(text.s)]

\* raises SerializationError for a str longer than 65535 + 256
is_long_string(v) ==
    IF v.t # "str" THEN [err |-> "", m |-> FALSE]
    ELSE IF Len(v.s) > 65535 + 256 THEN [err |-> "SerializationError", m |-> FALSE]
    ELSE [err |-> "", m |-> TRUE]

serialize_long_string(v) ==
    LET length == IntSub(IntOfNat(Len(v.s)), IntOfNat(256))
        p == StructPack(2, length)
    IN  [err |-> p.err, out |-> p.out \o Utf8Encode(v.s)]

deserialize_long_string(v) ==
    LET u == StructUnpack(2, TakeBytes(v, 2)) IN
    IF u.err # "" THEN [err |-> u.err, consumed |-> 0, value |-> PyNone]
    ELSE LET length == NatOfBytes(TakeBytes(v, 2)) + 256
             text == Utf8Decode(DropBytes(v, 2))
         IN  [err |-> text.err, consumed |-> length + 2, value |-> PyStr(text.s)]

is_bytes(v) == v.t = "bytes"

serialize_bytes(v) ==
    IF Len(v.s) > 65535 THEN [err |-> "SerializationError", out |-> <<>>]
    ELSE LET p == StructPack(2, IntOfNat(Len(v.s))) IN
         [err |-> p.err, out |-> p.out \o v.s]

deserialize_bytes(v) ==
    LET u == StructUnpack(2, TakeBytes(v, 2)) IN
    IF u.err # "" THEN [err |-> u.err, consumed |-> 0, value |-> PyNone]
    ELSE [err |-> "", consumed |-> NatOfBytes(TakeBytes(v, 2)) + 2,
          value |-> PyBytes(DropBytes(v, 2))]

----------------------------------------------------------------------------
(* integer_serializer(size_idx): the closures match, serialize, deserialize *)

sizes == <<1, 2, 4, 8>>

IntSerNegative(size_idx) == size_idx < 0

\* size_idx = abs(size_idx) - 1, as an index into sizes (1-based here)
IntSerIndex(size_idx) == IF size_idx < 0 THEN -size_idx ELSE size_idx

IntSerSize(size_idx) == sizes[IntSerIndex(size_idx)]

\* max_val after n iterations of "for step in sizes[:size_idx + 1]"
RECURSIVE LoopMaxVal(_)
LoopMaxVal(n) ==
    IF n = 0 THEN IntZero
    ELSE IntAdd(LoopMaxVal(n - 1), PyInt(FALSE, Pow256(sizes[n])))

\* subtract = max_val as it was before the last iteration
IntSerSubtract(size_idx) == LoopMaxVal(IntSerIndex(size_idx) - 1)

\* a variant that leaves out "if negative: max_val += 1"
IntSerMaxVal_NoNegativeExtra(size_idx) == LoopMaxVal(IntSerIndex(size_idx))

IntSerMaxVal(size_idx) ==
    IF IntSerNegative(size_idx)
    THEN IntAdd(LoopMaxVal(IntSerIndex(size_idx)), IntOne)
    ELSE LoopMaxVal(IntSerIndex(size_idx))

\* a variant that compares with "val <= max_val"
IntSerMatch_Inclusive(size_idx, val) ==
    IF val.t # "int" THEN FALSE
    ELSE LET v == IF IntSerNegative(size_idx) THEN IntNeg(val) ELSE val IN
         IntGe(v, IntZero) /\ ~IntLt(IntSerMaxVal(size_idx), v)

\* bool is caught by the "is True" / "is False" checkers before any of these
IntSerMatch(size_idx, val) ==
    IF val.t # "int" THEN FALSE
    ELSE LET v == IF IntSerNegative(size_idx) THEN IntNeg(val) ELSE val IN
         IntGe(v, IntZero) /\ IntLt(v, IntSerMaxVal(size_idx))

IntSerSerialize(size_idx, val) ==
    LET v == IF IntSerNegative(size_idx) THEN IntSub(IntNeg(val), IntOne) ELSE val
    IN  StructPack(IntSerSize(size_idx), IntSub(v, IntSerSubtract(size_idx)))

IntSerDeserialize(size_idx, bs) ==
    LET size == IntSerSize(size_idx)
        u == StructUnpack(size, TakeBytes(bs, size))
        v == IntAdd(u.val, IntSerSubtract(size_idx))
    IN  IF u.err # "" THEN [err |-> u.err, consumed |-> 0, value |-> PyNone]
        ELSE [err |-> "", consumed |-> size,
              value |-> IF IntSerNegative(size_idx)
                        THEN IntSub(IntNeg(v), IntOne) ELSE v]

----------------------------------------------------------------------------
(* VALUE_SERIALIZERS, indexed by tag 0 .. 13 *)

\* the size_idx of the integer serializers at tags 6 .. 13
IntSerOfTag(i) == <<1, -1, 2, -2, 3, -3, 4, -4>>[i - 5]

NumSerializers == 6 + Len(<<1, -1, 2, -2, 3, -3, 4, -4>>)

\* VALUE_SERIALIZERS[i][0](v)
Checker(i, v) ==
    IF i = 0 THEN [err |-> "", m |-> v.t = "none"]
    ELSE IF i = 1 THEN [err |-> "", m |-> v.t = "bool" /\ v.b]
    ELSE IF i = 2 THEN [err |-> "", m |-> v.t = "bool" /\ ~v.b]
    ELSE IF i = 3 THEN [err |-> "", m |-> is_short_string(v)]
    ELSE IF i = 4 THEN is_long_string(v)
    ELSE IF i = 5 THEN [err |-> "", m |-> is_bytes(v)]
    ELSE [err |-> "", m |-> IntSerMatch(IntSerOfTag(i), v)]

\* VALUE_SERIALIZERS[i][1](v)
Serializer(i, v) ==
    IF i \in {0, 1, 2} THEN [err |-> "", out |-> <<>>]
    ELSE IF i = 3 THEN serialize_short_string(v)
    ELSE IF i = 4 THEN serialize_long_string(v)
    ELSE IF i = 5 THEN serialize_bytes(v)
    ELSE IntSerSerialize(IntSerOfTag(i), v)

\* VALUE_SERIALIZERS[i][2](data)
Deserializer(i, bs) ==
    IF i = 0 THEN [err |-> "", consumed |-> 0, value |-> PyNone]
    ELSE IF i = 1 THEN [err |-> "", consumed |-> 0, value |-> PyBool(TRUE)]
    ELSE IF i = 2 THEN [err |-> "", consumed |-> 0, value |-> PyBool(FALSE)]
    ELSE IF i = 3 THEN deserialize_short_string(bs)
    ELSE IF i = 4 THEN deserialize_long_string(bs)
    ELSE IF i = 5 THEN deserialize_bytes(bs)
    ELSE IntSerDeserialize(IntSerOfTag(i), bs)

----------------------------------------------------------------------------
(* serialize_value, serialize_values, deserialize_values *)

\* str(value) for the values that reach the fallback: an int outside the
\* 8-byte classes, or a value of another type (which carries its text)
PyStrOf(v) ==
    IF v.t = "int"
    THEN PyStr((IF v.b THEN <<45>> ELSE <<>>)
               \o (IF MagIsZero(v.s) THEN <<48>> ELSE MagDecimal(v.s)))
    ELSE PyStr(v.s)

RECURSIVE SerializeFrom(_, _)
SerializeFrom(i, value) ==
    IF i >= NumSerializers THEN SerializeFrom(0, PyStrOf(value))
    ELSE LET c == Checker(i, value) IN
         IF c.err # "" THEN [err |-> c.err, out |-> <<>>]
         ELSE IF c.m
         THEN LET s == Serializer(i, value) IN
              [err |-> s.err, out |-> <<i>> \o s.out]
         ELSE SerializeFrom(i + 1, value)

serialize_value(value) == SerializeFrom(0, value)

RECURSIVE serialize_values(_)
serialize_values(vs) ==
    IF vs = <<>> THEN [err |-> "", out |-> <<>>]
    ELSE LET h == serialize_value(Head(vs))
             r == serialize_values(Tail(vs))
         IN  IF h.err # "" THEN h
             ELSE IF r.err # "" THEN r
             ELSE [err |-> "", out |-> h.out \o r.out]

\* one iteration of the while loop of deserialize_values
DeserializeOne(bs) ==
    LET data_type == bs[1]
        rest == DropBytes(bs, 1)
    IN  IF data_type >= NumSerializers
        THEN [err |-> "IndexError", data |-> rest, value |-> PyNone]
        ELSE LET d == Deserializer(data_type, rest) IN
             [err |-> d.err,
              data |-> IF d.consumed # 0 THEN DropBytes(rest, d.consumed) ELSE rest,
              value |-> d.value]

----------------------------------------------------------------------------
(* The values drawn as inputs of the codec *)

\* magnitudes around every width transition, as big-endian digit strings:
\* 0, 1, 255, 256, 257, 65535, 65536, 65791, 65792, 65793, 2^31-1, 2^31,
\* 2^32+65791, 2^32+65792, 2^32+65793, 2^63-1, 2^63,
\* 2^64+2^32+65791, 2^64+2^32+65792, 2^64+2^32+65793
IntMagDigits ==
    { <<0>>, <<1>>, <<255>>, <<1, 0>>, <<1, 1>>, <<255, 255>>, <<1, 0, 0>>,
      <<1, 0, 255>>, <<1, 1, 0>>, <<1, 1, 1>>,
      <<127, 255, 255, 255>>, <<128, 0, 0, 0>>,
      <<1, 0, 1, 0, 255>>, <<1, 0, 1, 1, 0>>, <<1, 0, 1, 1, 1>>,
      <<127, 255, 255, 255, 255, 255, 255, 255>>,
      <<128, 0, 0, 0, 0, 0, 0, 0>>,
      <<1, 0, 0, 0, 1, 0, 1, 0, 255>>, <<1, 0, 0, 0, 1, 0, 1, 1, 0>>,
      <<1, 0, 0, 0, 1, 0, 1, 1, 1>> }

IntValues == { PyInt(neg, Pad(d)) : neg \in BOOLEAN, d \in IntMagDigits }

\* n times the code point (or byte) c
Repeat(c, n) == AsSeq([i \in 1..n |-> c], n)

\* "", "a", "ab", "\x00", U+00E9, U+00E9 U+0000, "a" U+00E9, U+20AC, U+1F600,
\* and strings of 255 and of 256 .. 256 + LongExtra characters
StrValues ==
    { PyStr(s) : s \in { <<>>, <<97>>, <<97, 98>>, <<0>>, <<233>>, <<233, 0>>,
                         <<97, 233>>, <<8364>>, <<128512>>,
                         Repeat(97, 255), <<233>> \o Repeat(97, 255) } }
    \cup { PyStr(Repeat(97, 256 + k)) : k \in 0..LongExtra }

\* b"", b"\x01", b"a", b"\xff\x00"
BytesValues == { PyBytes(s) : s \in { <<>>, <<1>>, <<97>>, <<255, 0>> } }

\* a float, 4.5, which no checker matches
OtherValues == { PyOther(<<52, 46, 53>>) }

AllValues ==
    {PyNone, PyBool(TRUE), PyBool(FALSE)}
    \cup StrValues \cup BytesValues \cup IntValues \cup OtherValues

\* the values tuples of two or more elements are made of
MixValues ==
    { PyNone, PyBool(TRUE), PyStr(<<97>>), PyStr(<<233>>), PyBytes(<<1>>),
      PyInt(FALSE, Pad(<<1>>)), PyInt(TRUE, Pad(<<1>>)),
      PyInt(FALSE, Pad(<<255>>)), PyInt(FALSE, Pad(<<1, 0>>)) }

RECURSIVE TuplesOf(_, _)
TuplesOf(S, n) ==
    IF n = 0 THEN { <<>> }
    ELSE { Append(t, v) : t \in TuplesOf(S, n - 1), v \in S }

InputTuples ==
    { <<v>> : v \in AllValues }
    \cup UNION { TuplesOf(MixValues, n) : n \in 0..MaxTupleLen }

----------------------------------------------------------------------------
(* The codec run: serialize_values(values_in), then deserialize_values     *)

SerializeValues ==
    /\ pc = "start"
    /\ LET r == serialize_values(values_in) IN
       IF r.err # ""
       THEN pc' = "raised" /\ err' = r.err /\ data' = data
       ELSE pc' = "decode" /\ err' = err /\ data' = r.out
    /\ UNCHANGED <<values_in, values>>
    /\ UNCHANGED filter_vars

DeserializeStep ==
    /\ pc = "decode"
    /\ data # <<>>
    /\ LET d == DeserializeOne(data) IN
       IF d.err # ""
       THEN pc' = "raised" /\ err' = d.err /\ UNCHANGED <<data, values>>
       ELSE pc' = pc /\ err' = err /\ data' = d.data
            /\ values' = Append(values, d.value)
    /\ UNCHANGED values_in
    /\ UNCHANGED filter_vars

DeserializeReturn ==
    /\ pc = "decode"
    /\ data = <<>>
    /\ pc' = "done"
    /\ UNCHANGED <<values_in, data, values, err>>
    /\ UNCHANGED filter_vars

FilterIdle ==
    /\ order_by = <<>>
    /\ start_position = <<>>
    /\ rows = {}
    /\ out = <<>>

InitCodec ==
    /\ values_in \in InputTuples
    /\ data = <<>>
    /\ values = <<>>
    /\ pc = "start"
    /\ err = ""
    /\ FilterIdle

NextCodec == SerializeValues \/ DeserializeStep \/ DeserializeReturn

SpecCodec == InitCodec /\ [][NextCodec]_vars

----------------------------------------------------------------------------
(* Properties of the codec *)

MagLe(a, b) == ~MagLt(b, a)

\* the widths of the integer classes, in try order
ClassWidth(c) == <<1, 2, 4, 8>>[c]

\* cap(c) = sum of 256^width_i for i <= c: 256, 65792, 2^32 + 65792,
\* 2^64 + 2^32 + 65792
ClassCap(c) ==
    Pad(<< <<1, 0>>, <<1, 1, 0>>, <<1, 0, 1, 1, 0>>,
           <<1, 0, 0, 0, 1, 0, 1, 1, 0>> >>[c])

\* bias(c) = cap(c - 1), 0 for the first class
ClassBias(c) == IF c = 1 THEN MagZero ELSE ClassCap(c - 1)

\* the magnitude the payload stores: v, or m = -v - 1 for a negative v
Magnitude(v) == IF v.b THEN MagSub(v.s, MagOne) ELSE v.s

\* an integer of the 8-byte positive or negative range
IntInRange(v) == v.t = "int" /\ MagLt(Magnitude(v), ClassCap(4))

\* a value the codec has a tag for
Encodable(v) ==
    \/ v.t \in {"none", "bool"}
    \/ v.t = "str" /\ Len(v.s) <= 65535 + 256
    \/ v.t = "bytes" /\ Len(v.s) <= 65535
    \/ IntInRange(v)

\* v's magnitude minus the bias of class c fits the payload of class c
FitsClass(v, c) ==
    /\ MagLe(ClassBias(c), Magnitude(v))
    /\ MagLt(MagSub(Magnitude(v), ClassBias(c)), Pow256(ClassWidth(c)))

Finished == pc \in {"done", "raised"}

\* serialize_values has returned and no value is decoded yet
JustEncoded == pc = "decode" /\ values = <<>>

\* the class and sign the tag of an encoded integer names
TagClass(tag) == ((tag - 6) \div 2) + 1
TagNegative(tag) == (tag - 6) % 2 = 1

\* C1: for every encodable value v, deserialize_values(serialize_value(v))
\* returns the one-element list [v] and does not raise.
C1_SingleRoundTrip ==
    (Len(values_in) = 1 /\ Encodable(values_in[1]) /\ Finished)
        => (pc = "done" /\ values = values_in)

\* C2: for every tuple t of two or more encodable values, every decode step
\* strips exactly one encoded value off the front of the buffer (what is left
\* is the encoding of the values still to come, what is decoded is the prefix
\* of t), and the run ends with exactly the elements of t.
C2_TupleRoundTrip ==
    (Len(values_in) >= 2 /\ \A i \in 1..Len(values_in) : Encodable(values_in[i]))
        => /\ pc # "raised"
           /\ pc = "decode" =>
                /\ Len(values) <= Len(values_in)
                /\ values = SubSeq(values_in, 1, Len(values))
                /\ data = serialize_values(
                        SubSeq(values_in, Len(values) + 1, Len(values_in))).out
           /\ pc = "done" => values = values_in

\* C3: every integer v of the representable range is encoded, without error,
\* with the tag of the first class c (try order 1, 2, 4, 8 bytes) that can
\* hold it, in 1 + width(c) bytes, with the payload magnitude - bias(c); for a
\* non-negative v that class is the one with bias(c) <= v < cap(c). 255 takes
\* 2 bytes, 256 takes 3 bytes, -1 takes 2 bytes.
C3_MinimalWidth ==
    (Len(values_in) = 1 /\ IntInRange(values_in[1]) /\ pc # "start")
        => /\ pc # "raised"
           /\ JustEncoded =>
                LET v == values_in[1]
                    c == TagClass(data[1])
                IN  /\ data[1] \in 6..13
                    /\ TagNegative(data[1]) = v.b
                    /\ Len(data) = 1 + ClassWidth(c)
                    /\ FitsClass(v, c)
                    /\ \A d \in 1..(c - 1) : ~FitsClass(v, d)
                    /\ Pad(DropBytes(data, 1)) = MagSub(Magnitude(v), ClassBias(c))
                    /\ ~v.b => (MagLe(ClassBias(c), v.s) /\ MagLt(v.s, ClassCap(c)))
                    /\ v = PyInt(FALSE, Pad(<<255>>)) => Len(data) = 2
                    /\ v = PyInt(FALSE, Pad(<<1, 0>>)) => Len(data) = 3
                    /\ v = PyInt(TRUE, Pad(<<1>>)) => Len(data) = 2

\* 256, the first value of the 2-byte class, has been encoded in 3 bytes
C3_Witness ==
    /\ values_in = <<PyInt(FALSE, Pad(<<1, 0>>))>>
    /\ JustEncoded
    /\ data = <<8, 0, 0>>

\* C9 as stated: a negative v is encoded in the first class c with
\* bias(c) <= m < cap(c) + 1, where m = -v - 1.
C9_NegativeRangeAsStated ==
    (Len(values_in) = 1 /\ values_in[1].t = "int" /\ values_in[1].b
     /\ MagLe(Magnitude(values_in[1]), ClassCap(4)) /\ JustEncoded)
        => LET m == Magnitude(values_in[1])
               In(c) == MagLe(ClassBias(c), m) /\ MagLe(m, ClassCap(c))
               first == CHOOSE c \in 1..4 : In(c) /\ \A d \in 1..(c - 1) : ~In(d)
           IN  data[1] = 5 + (2 * first)

\* C9, amended: a negative v with m = -v - 1 is encoded in class c iff
\* bias(c) <= m < cap(c); the payload is the big-endian m - bias(c) in
\* width(c) bytes, and decoding returns v. The magnitude m = cap(c) belongs to
\* the next class.
C9_NegativeRange ==
    (Len(values_in) = 1 /\ IntInRange(values_in[1]) /\ values_in[1].b
     /\ pc # "start")
        => /\ pc # "raised"
           /\ JustEncoded =>
                LET m == Magnitude(values_in[1]) IN
                \A c \in 1..4 :
                    /\ (data[1] = 5 + (2 * c))
                           <=> (MagLe(ClassBias(c), m) /\ MagLt(m, ClassCap(c)))
                    /\ (data[1] = 5 + (2 * c)) =>
                          /\ Len(data) = 1 + ClassWidth(c)
                          /\ Pad(DropBytes(data, 1)) = MagSub(m, ClassBias(c))
           /\ pc = "done" => values = values_in

\* -257 (m = 256 = cap of the 1-byte class) went to the 2-byte negative class
\* with payload 0 and was decoded again
C9_Witness ==
    /\ values_in = <<PyInt(TRUE, Pad(<<1, 1>>))>>
    /\ pc = "done"
    /\ values = values_in

----------------------------------------------------------------------------
(* filter_by_order_key: orderings, cursors, rows and Q objects             *)
(*                                                                         *)
(* A column value (of a row or of the cursor) is [null, v]: NULL / None,   *)
(* or the number v. A field of an ordering is                              *)
(*   [name, descending, nulls_first, nulls_last, expr]                     *)
(* where expr tells an OrderBy expression from a plain field name          *)
(* ("name" or "-name", which carries no null policy); name is the index of *)
(* the column in a row.                                                    *)

NULL == [null |-> TRUE, v |-> 0]
Val(n) == [null |-> FALSE, v |-> n]

\* constants.KEY_BACK, and the other direction
KEY_BACK == "back"
KEY_NEXT == "next"
Directions == {KEY_NEXT, KEY_BACK}

convert_to_order_by(field) ==
    IF field.expr THEN field
    ELSE [name |-> field.name, descending |-> field.descending,
          nulls_first |-> FALSE, nulls_last |-> FALSE, expr |-> TRUE]

convert_order_by_to_expressions(fields) ==
    [i \in 1..Len(fields) |-> convert_to_order_by(fields[i])]

InvertField(field) ==
    [name |-> field.name,
     descending |-> ~field.descending,
     nulls_first |-> IF field.nulls_first THEN FALSE
                     ELSE IF field.nulls_last THEN TRUE ELSE field.nulls_first,
     nulls_last |-> IF field.nulls_first THEN TRUE
                    ELSE IF field.nulls_last THEN FALSE ELSE field.nulls_last,
     expr |-> field.expr]

invert_order_by(fields) == [i \in 1..Len(fields) |-> InvertField(fields[i])]

\* a keyword of Q(**kwargs): name, name__isnull, name__gt, ...
Leaf(name, lookup, value) ==
    [name |-> name, lookup |-> lookup, value |-> value, flag |-> FALSE]
IsNullLeaf(name, flag) ==
    [name |-> name, lookup |-> "isnull", value |-> NULL, flag |-> flag]

\* filter_combinations[key] = value, and filter_combinations.pop(key, None)
Pop(fc, name, lookup) == { l \in fc : ~(l.name = name /\ l.lookup = lookup) }
SetItem(fc, leaf) == Pop(fc, leaf.name, leaf.lookup) \cup {leaf}

\* Q(**all) & (Q(one of any)): a branch of the final filter. An empty Q is
\* the identity of & and of |.
Branch(all, any) == [all |-> all, any |-> any]
QOr(qq, branch) ==
    IF branch.all = {} /\ branch.any = {} THEN qq ELSE Append(qq, branch)

\* len(start_position) != len(order_by), with the length check "<" only
LengthMismatch_ShortOnly(position, fields) == Len(position) < Len(fields)

LengthMismatch(position, fields) == Len(position) # Len(fields)

\* a variant that makes the comparison inclusive on every column
FieldDirection_AlwaysInclusive(field, is_last) ==
    IF field.descending THEN "lte" ELSE "gte"

\* 'lt' or 'gt' by the column's direction, with 'e' appended on the last column
FieldDirection(field, is_last) ==
    IF is_last THEN (IF field.descending THEN "lte" ELSE "gte")
    ELSE (IF field.descending THEN "lt" ELSE "gt")

\* the body of the for loop, for the pair (order_expression, value) at index i
LoopBody(i, fields, value, st) ==
    LET order_expression == fields[i]
        is_last == i = Len(fields)
        field_name == order_expression.name
        lookup == FieldDirection(order_expression, is_last)
    IN
    IF value.null THEN
        IF order_expression.nulls_last
        THEN [st EXCEPT !.fc = SetItem(@, IsNullLeaf(field_name, TRUE))]
        ELSE IF order_expression.nulls_first
        THEN LET fc1 == SetItem(st.fc, IsNullLeaf(field_name, FALSE)) IN
             [st EXCEPT !.q = QOr(@, Branch(fc1, {})),
                        !.fc = SetItem(fc1, IsNullLeaf(field_name, TRUE))]
        ELSE \* warning; field_lookup stays ''
             [st EXCEPT !.warned = TRUE,
                        !.q = QOr(@, Branch(st.fc, {})),
                        !.fc = SetItem(st.fc, Leaf(field_name, "exact", value))]
    ELSE
        IF order_expression.nulls_last
        THEN [st EXCEPT
                !.q = QOr(@, Branch(st.fc, {Leaf(field_name, lookup, value),
                                            IsNullLeaf(field_name, TRUE)})),
                !.fc = SetItem(@, Leaf(field_name, "exact", value))]
        ELSE LET fc1 == SetItem(st.fc, Leaf(field_name, lookup, value)) IN
             [st EXCEPT
                !.q = QOr(@, Branch(fc1, {})),
                !.fc = SetItem(Pop(fc1, field_name, lookup),
                               Leaf(field_name, "exact", value))]

\* the iterations i .. of "for i, value in enumerate(zip(order_by,
\* start_position))": zip stops with the shorter of the two
RECURSIVE Loop(_, _, _, _)
Loop(i, fields, position, st) ==
    IF i > Len(fields) \/ i > Len(position) THEN st
    ELSE Loop(i + 1, fields, position, LoopBody(i, fields, position[i], st))

\* a comparison with None is refused when the filter is applied
LeafValid(l) == l.lookup \in {"gt", "gte", "lt", "lte"} => ~l.value.null

EvalLeaf(l, row) ==
    LET x == row[l.name] IN
    IF l.lookup = "isnull" THEN x.null = l.flag
    ELSE IF l.lookup = "exact"
    THEN (IF l.value.null THEN x.null ELSE ~x.null /\ x.v = l.value.v)
    ELSE IF l.lookup = "gt" THEN ~x.null /\ x.v > l.value.v
    ELSE IF l.lookup = "gte" THEN ~x.null /\ x.v >= l.value.v
    ELSE IF l.lookup = "lt" THEN ~x.null /\ x.v < l.value.v
    ELSE ~x.null /\ x.v <= l.value.v

EvalBranch(b, row) ==
    /\ \A l \in b.all : EvalLeaf(l, row)
    /\ b.any = {} \/ \E l \in b.any : EvalLeaf(l, row)

\* whether the row passes qs.filter(q)
EvalQ(qq, row) == \E n \in 1..Len(qq) : EvalBranch(qq[n], row)

\* Q(**sentinel_query): every column equal to its start value
SentinelQuery(fields, position) ==
    { Leaf(fields[i].name, "exact", position[i]) :
        i \in 1..(IF Len(fields) < Len(position) THEN Len(fields)
                  ELSE Len(position)) }

NotCalled ==
    [status |-> "none", q |-> <<>>, order |-> <<>>, result |-> {},
     annotated |-> FALSE, sentinel |-> {}, warned |-> FALSE]

Raised == [NotCalled EXCEPT !.status = "InvalidPage"]

filter_by_order_key(qs_order, qs_rows, dir, position) ==
    LET order0 == convert_order_by_to_expressions(qs_order) IN
    IF LengthMismatch(position, order0) THEN Raised
    ELSE
    LET fields == IF dir = KEY_BACK THEN invert_order_by(order0) ELSE order0
        ordering == IF dir = KEY_BACK THEN fields ELSE qs_order
        st == Loop(1, fields, position, [q |-> <<>>, fc |-> {}, warned |-> FALSE])
        leaves == UNION { st.q[n].all \cup st.q[n].any : n \in 1..Len(st.q) }
    IN
    IF st.q = <<>>
    THEN [status |-> "returned", q |-> st.q, order |-> ordering,
          result |-> qs_rows, annotated |-> FALSE, sentinel |-> {},
          warned |-> st.warned]
    ELSE IF \E l \in leaves : ~LeafValid(l)
    THEN [Raised EXCEPT !.warned = st.warned]
    ELSE LET kept == { r \in qs_rows : EvalQ(st.q, r) } IN
         [status |-> "returned", q |-> st.q, order |-> ordering,
          result |-> kept, annotated |-> TRUE,
          sentinel |-> { r \in kept :
                           \A l \in SentinelQuery(fields, position) : EvalLeaf(l, r) },
          warned |-> st.warned]

----------------------------------------------------------------------------
(* The orderings, cursors and rows drawn, and the calls                    *)

\* the non-null values of a row's columns, and those of a cursor (a row has
\* values below, at and above every cursor value)
ColumnValues == { Val(1), Val(2), Val(3) }
CursorValues == { Val(1), Val(2) }

\* the field of column n: an OrderBy with or without a null policy, or a name
FieldsOf(n) ==
    { [name |-> n, descending |-> d, nulls_first |-> nf, nulls_last |-> nl,
       expr |-> e] :
        d \in BOOLEAN, nf \in BOOLEAN, nl \in BOOLEAN, e \in BOOLEAN }

ValidField(f) == ~(f.nulls_first /\ f.nulls_last) /\ (~f.expr => ~f.nulls_first /\ ~f.nulls_last)

RECURSIVE Orderings(_)
Orderings(n) ==
    IF n = 0 THEN { <<>> }
    ELSE { Append(o, f) : o \in Orderings(n - 1),
                          f \in { g \in FieldsOf(n) : ValidField(g) } }

AllRows(n) == TuplesOf(ColumnValues \cup {NULL}, n)

InitFilter ==
    /\ \E n \in 0..MaxCols :
        /\ order_by \in Orderings(n)
        /\ rows = AllRows(n)
    /\ \E m \in 0..MaxCols : start_position \in TuplesOf(CursorValues \cup {NULL}, m)
    /\ out = [d \in Directions |-> NotCalled]
    /\ values_in = <<>>
    /\ data = <<>>
    /\ values = <<>>
    /\ pc = "idle"
    /\ err = ""

\* filter_by_order_key(qs, dir, start_position) raises InvalidPage
FilterRaises(dir) ==
    /\ out[dir].status = "none"
    /\ LET r == filter_by_order_key(order_by, rows, dir, start_position) IN
       /\ r.status = "InvalidPage"
       /\ out' = [out EXCEPT ![dir] = r]
    /\ UNCHANGED <<order_by, start_position, rows>>
    /\ UNCHANGED codec_vars

\* filter_by_order_key(qs, dir, start_position) returns a queryset
FilterReturns(dir) ==
    /\ out[dir].status = "none"
    /\ LET r == filter_by_order_key(order_by, rows, dir, start_position) IN
       /\ r.status = "returned"
       /\ out' = [out EXCEPT ![dir] = r]
    /\ UNCHANGED <<order_by, start_position, rows>>
    /\ UNCHANGED codec_vars

NextFilter == \E dir \in Directions : FilterRaises(dir) \/ FilterReturns(dir)

SpecFilter == InitFilter /\ [][NextFilter]_vars

----------------------------------------------------------------------------
(* Properties of filter_by_order_key *)

Forward == out[KEY_NEXT]
Backward == out[KEY_BACK]

Called(d) == out[d].status # "none"

\* the cursor has one value per column, and there is a column
Matching == Len(order_by) >= 1 /\ Len(start_position) = Len(order_by)

\* column i states where its NULLs sort
HasNullPolicy(i) == order_by[i].nulls_first \/ order_by[i].nulls_last

\* T_i: the row is past the cursor on column i (inclusive on the last column)
Past(row, i) ==
    /\ ~row[i].null
    /\ IF order_by[i].descending
       THEN (IF i = Len(order_by) THEN row[i].v <= start_position[i].v
             ELSE row[i].v < start_position[i].v)
       ELSE (IF i = Len(order_by) THEN row[i].v >= start_position[i].v
             ELSE row[i].v > start_position[i].v)

\* OR over i of (column_1 == s_1 AND ... AND column_(i-1) == s_(i-1) AND
\* (T_i, or column_i IS NULL when column i is nulls-last))
LexicographicallyPast(row) ==
    \E i \in 1..Len(order_by) :
        /\ \A j \in 1..(i - 1) : ~row[j].null /\ row[j].v = start_position[j].v
        /\ Past(row, i) \/ (order_by[i].nulls_last /\ row[i].null)

\* C4: for k >= 1 columns and a cursor of k non-null values, the forward
\* filter keeps exactly the rows with OR_i (equal to the cursor on the columns
\* before i AND T_i), T_i strict except on the last column, widened by
\* "column_i IS NULL" exactly on the nulls-last columns.
C4_LexicographicPredicate ==
    (Matching /\ Called(KEY_NEXT)
     /\ \A i \in 1..Len(start_position) : ~start_position[i].null)
        => /\ Forward.status = "returned"
           /\ Forward.result = { r \in rows : LexicographicallyPast(r) }

\* (column 1 DESC NULLS LAST, column 2 ASC) with cursor (2, 1): a row with
\* NULL in column 1 and the pivot row are kept, a row with 3 in column 1 is not
C4_Witness ==
    /\ Len(order_by) = 2
    /\ order_by[1].descending /\ order_by[1].nulls_last
    /\ ~order_by[2].descending
    /\ start_position = <<Val(2), Val(1)>>
    /\ Forward.status = "returned"
    /\ <<NULL, Val(3)>> \in Forward.result
    /\ <<Val(2), Val(1)>> \in Forward.result
    /\ <<Val(3), Val(3)>> \notin Forward.result

\* C5: a single nulls-last column and the cursor (NULL): the forward filter
\* keeps exactly the rows whose column IS NULL.
C5_NullCursorNullsLast ==
    (Len(order_by) = 1 /\ order_by[1].nulls_last
     /\ start_position = <<NULL>> /\ Called(KEY_NEXT))
        => /\ Forward.status = "returned"
           /\ Forward.result = { r \in rows : r[1].null }

\* C6: with a null policy on every column and a cursor of matching length,
\* every row passes the forward or the backward filter, and only the row equal
\* to the cursor passes both.
C6_Partition ==
    (Matching /\ (\A i \in 1..Len(order_by) : HasNullPolicy(i))
     /\ Called(KEY_NEXT) /\ Called(KEY_BACK))
        => /\ Forward.status = "returned"
           /\ Backward.status = "returned"
           /\ \A r \in rows :
                /\ r \in Forward.result \/ r \in Backward.result
                /\ (r \in Forward.result /\ r \in Backward.result)
                       => r = start_position

\* C7: with len(start_position) != len(order_by) a call, in either
\* direction, ends with InvalidPage: no queryset is returned, no Q is built,
\* nothing is filtered or reordered.
C7_LengthMismatch ==
    Len(start_position) # Len(order_by)
        => \A d \in Directions : out[d] \in {NotCalled, Raised}

\* a cursor longer than the ordering was refused, in both directions
C7_Witness ==
    /\ Len(start_position) > Len(order_by)
    /\ Len(order_by) >= 1
    /\ \A d \in Directions : out[d] = Raised

\* C8: with a null policy on every column and a cursor of matching length,
\* in both directions, the row equal to the cursor on every column passes the
\* filter: the pivot row is part of the result.
C8_PivotRetained ==
    \A d \in Directions :
        (Matching /\ (\A i \in 1..Len(order_by) : HasNullPolicy(i)) /\ Called(d))
            => /\ out[d].status = "returned"
               /\ start_position \in out[d].result

\* the equality that pins column j of the cursor
PinLeaf(j) ==
    IF start_position[j].null /\ HasNullPolicy(j) THEN IsNullLeaf(j, TRUE)
    ELSE Leaf(j, "exact", start_position[j])

\* C10 (its last clause): for a column i without a null policy, the forward
\* filter has no OR-branch that consists of the equality prefix of the
\* columns before i alone.
C10_NoPrefixAloneBranch ==
    \A i \in 2..Len(order_by) :
        (Matching /\ ~HasNullPolicy(i) /\ Called(KEY_NEXT))
            => /\ Forward.status = "returned"
               /\ \A n \in 1..Len(Forward.q) :
                    Forward.q[n] # Branch({ PinLeaf(j) : j \in 1..(i - 1) }, {})

====
